---- MODULE Spec2Model ----
(***************************************************************************)
(* A model of bigrams.py: the bigram pipeline (make_bigrams,               *)
(* count_bigrams, sort_bigram_counts), the queries on the ranked list      *)
(* (num_start_with, suggest_next, get_most_freq_after, word_sequence) and  *)
(* the command loop interact with report_info.                             *)
(*                                                                         *)
(* Python values are represented as follows.                               *)
(*   str    a TLA+ string; the order of str is WordLess.                   *)
(*   tuple  a TLA+ tuple: a bigram is <<w1, w2>>, a ranked entry is        *)
(*          <<count, <<w1, w2>>>>.                                         *)
(*   list   a TLA+ sequence.                                               *)
(*   dict   a sequence of <<key, value>> pairs in insertion order, which   *)
(*          is the order a Python dict iterates in.                        *)
(*   an input line is a sequence of atoms: the atom " " is one space       *)
(*   character, every other atom is a block of non-space characters.       *)
(***************************************************************************)
EXTENDS Integers, Sequences, FiniteSets, TLC

\* Bounds of the model.
MaxWords == 6       \* longest corpus, in words (Spec)
MaxLength == 3      \* largest length argument of word_sequence (Spec)
MaxSuggestions == 2 \* largest num_suggestions argument of suggest_next (Spec)
MaxCorpus == 2      \* longest corpus, in words (InteractSpec)
MaxLine == 4        \* longest input line, in atoms (InteractSpec)

\* Default arguments of the program.
DefaultNumSuggestions == 5
DefaultLength == 5

\* The words of the corpus: what get_words returns are non-empty lower-case
\* words.
Vocab == {"a", "b", "c"}

\* The value get_most_freq_after returns when no bigram starts with w.
Sentinel == ""

\* The words a query is made with: the words of the corpus, the sentinel and
\* a word no corpus holds.
QueryWords == Vocab \cup {Sentinel, "z"}

\* Python's order of str, on the words of the model.
WordOrder == <<"", "a", "b", "c", "z">>

WordRank(w) == CHOOSE i \in 1..Len(WordOrder) : WordOrder[i] = w

WordLess(v, w) == WordRank(v) < WordRank(w)

\* Python's order of tuples of two str.
BigramLess(x, y) ==
    \/ WordLess(x[1], y[1])
    \/ x[1] = y[1] /\ WordLess(x[2], y[2])

\* Python's order of (count, bigram) tuples.
EntryLess(x, y) ==
    \/ x[1] < y[1]
    \/ x[1] = y[1] /\ BigramLess(x[2], y[2])

\* All sequences over S of length at most n.
SeqsUpTo(S, n) == UNION {[1..k -> S] : k \in 0..n}

Reverse(s) == [i \in 1..Len(s) |-> s[Len(s) + 1 - i]]

Take(s, n) == IF n >= Len(s) THEN s ELSE SubSeq(s, 1, n)

----------------------------------------------------------------------------
\* make_bigrams: for i in range(1, len(words)): append (words[i-1], words[i]).
\* Python indexes from 0 and TLA+ from 1, so words[i-1], words[i] of the code
\* are words[i], words[i+1] here and i runs over 1 .. len(words) - 1.
RECURSIVE MakeLoop(_, _, _)
MakeLoop(words, i, result) ==
    IF i > Len(words) - 1 THEN result
    ELSE MakeLoop(words, i + 1, Append(result, <<words[i], words[i + 1]>>))

make_bigrams_drop_last(words) ==
    MakeLoop(SubSeq(words, 1, Len(words) - 1), 1, <<>>)

make_bigrams(words) == MakeLoop(words, 1, <<>>)

\* bg in result, for a dict result.
HasKey(d, k) == \E i \in 1..Len(d) : d[i][1] = k

KeyIndex(d, k) == CHOOSE i \in 1..Len(d) : d[i][1] = k

Lookup(d, k) == d[KeyIndex(d, k)][2]

Keys(d) == {d[i][1] : i \in 1..Len(d)}

CountStepNoIncrement(result, bg) ==
    IF HasKey(result, bg)
    THEN [result EXCEPT ![KeyIndex(result, bg)] = <<bg, 1>>]
    ELSE Append(result, <<bg, 1>>)

\* One pass of the loop of count_bigrams.
CountStep(result, bg) ==
    IF HasKey(result, bg)
    THEN [result EXCEPT ![KeyIndex(result, bg)] = <<bg, @[2] + 1>>]
    ELSE Append(result, <<bg, 1>>)

RECURSIVE CountLoop(_, _, _)
CountLoop(bgs, i, result) ==
    IF i > Len(bgs) THEN result
    ELSE CountLoop(bgs, i + 1, CountStep(result, bgs[i]))

count_bigrams(bgs) == CountLoop(bgs, 1, <<>>)

\* list.sort(): the list in ascending order. The sort of Python is stable, so
\* inserting each element after the elements that are not greater gives the
\* list Python gives. The elements are (count, bigram) tuples.
RECURSIVE Insert(_, _)
Insert(sorted, x) ==
    IF sorted = <<>> THEN <<x>>
    ELSE IF EntryLess(x, Head(sorted)) THEN <<x>> \o sorted
    ELSE <<Head(sorted)>> \o Insert(Tail(sorted), x)

RECURSIVE SortLoop(_, _, _)
SortLoop(lst, i, sorted) ==
    IF i > Len(lst) THEN sorted
    ELSE SortLoop(lst, i + 1, Insert(sorted, lst[i]))

ListSort(lst) == SortLoop(lst, 1, <<>>)

\* [(bg_count[w], w) for w in bg_count]
CountPairs(d) == [i \in 1..Len(d) |-> <<d[i][2], d[i][1]>>]

\* A stable sort on the count alone, from highest to lowest.
RECURSIVE InsertByCount(_, _)
InsertByCount(sorted, x) ==
    IF sorted = <<>> THEN <<x>>
    ELSE IF x[1] > Head(sorted)[1] THEN <<x>> \o sorted
    ELSE <<Head(sorted)>> \o InsertByCount(Tail(sorted), x)

RECURSIVE SortByCountLoop(_, _, _)
SortByCountLoop(lst, i, sorted) ==
    IF i > Len(lst) THEN sorted
    ELSE SortByCountLoop(lst, i + 1, InsertByCount(sorted, lst[i]))

sort_by_count_only(d) == SortByCountLoop(CountPairs(d), 1, <<>>)

sort_without_reverse(d) == ListSort(CountPairs(d))

sort_bigram_counts(d) == Reverse(ListSort(CountPairs(d)))

\* [e for e in counts if e[1][0] == w]
RECURSIVE StartingWith(_, _)
StartingWith(cnts, w) ==
    IF cnts = <<>> THEN <<>>
    ELSE IF Head(cnts)[2][1] = w
         THEN <<Head(cnts)>> \o StartingWith(Tail(cnts), w)
         ELSE StartingWith(Tail(cnts), w)

RECURSIVE SumCounts(_)
SumCounts(lst) ==
    IF lst = <<>> THEN 0 ELSE Head(lst)[1] + SumCounts(Tail(lst))

\* sum(cp[0] for cp in counts if cp[1][0] == w)
num_start_with(w, cnts) == SumCounts(StartingWith(cnts, w))

suggest_next_unfiltered(word, cnts, num_suggestions) ==
    Take(cnts, num_suggestions)

\* The slice result[:num_suggestions], for num_suggestions >= 0.
suggest_next(word, cnts, num_suggestions) ==
    Take(StartingWith(cnts, word), num_suggestions)

\* The loop of get_most_freq_after from entry i on.
RECURSIVE FirstAfter(_, _, _)
FirstAfter(w, cnts, i) ==
    IF i > Len(cnts) THEN Sentinel
    ELSE IF cnts[i][2][1] = w THEN cnts[i][2][2]
    ELSE FirstAfter(w, cnts, i + 1)

get_most_freq_after_last(w, cnts) ==
    LET m == StartingWith(cnts, w)
    IN  IF m = <<>> THEN Sentinel ELSE m[Len(m)][2][2]

get_most_freq_after_or_top(w, cnts) ==
    IF StartingWith(cnts, w) = <<>> /\ cnts /= <<>> THEN cnts[1][2][2]
    ELSE FirstAfter(w, cnts, 1)

get_most_freq_after(w, cnts) == FirstAfter(w, cnts, 1)

\* The loop of word_sequence: i counts the passes made.
RECURSIVE SeqLoop(_, _, _, _, _)
SeqLoop(w, cnts, i, length, result) ==
    IF i >= length THEN result
    ELSE LET next_word == get_most_freq_after(w, cnts)
         IN  SeqLoop(next_word, cnts, i + 1, length, Append(result, next_word))

word_sequence(start_word, cnts, length) ==
    SeqLoop(start_word, cnts, 0, length, <<start_word>>)

----------------------------------------------------------------------------
\* The command loop.

\* The atoms of an input line: one space, or a block of non-space characters.
Space == " "

Atoms == {Space, "info", "seq", "quit", "QUIT", "a"}

\* The lines of at most MaxLine atoms. A block is a maximal run of non-space
\* characters, so no two blocks are next to each other.
Lines ==
    {line \in SeqsUpTo(Atoms, MaxLine) :
        \A i \in 1..(Len(line) - 1) : line[i] = Space \/ line[i + 1] = Space}

\* str.lower() of a block.
LowerAtom(ch) ==
    CASE ch = "QUIT" -> "quit"
      [] OTHER -> ch

\* str.lower()
Lower(line) == [i \in 1..Len(line) |-> LowerAtom(line[i])]

\* str.strip(): the line without its leading and trailing whitespace.
RECURSIVE LStrip(_)
LStrip(line) ==
    IF line /= <<>> /\ Head(line) = Space THEN LStrip(Tail(line)) ELSE line

StripNothing(line) == line

Strip(line) == Reverse(LStrip(Reverse(LStrip(line))))

\* str.split(' '): the line is cut at every single space, so that two spaces
\* in a row enclose an empty term and the empty line gives one empty term.
\* cur is the term being read and result the terms read.
RECURSIVE SplitLoop(_, _, _, _)
SplitLoop(line, i, cur, result) ==
    IF i > Len(line) THEN Append(result, cur)
    ELSE IF line[i] = Space THEN SplitLoop(line, i + 1, "", Append(result, cur))
    ELSE SplitLoop(line, i + 1, cur \o line[i], result)

SplitOnSpace(line) == SplitLoop(line, 1, "", <<>>)

\* input('--> ').strip().lower().split(' ')
ParseTerms(line) == SplitOnSpace(Lower(Strip(line)))

\* ' '.join(ws)
RECURSIVE JoinLoop(_, _, _)
JoinLoop(ws, i, text) ==
    IF i > Len(ws) THEN text
    ELSE JoinLoop(ws, i + 1, text \o Space \o ws[i])

Join(ws) == IF ws = <<>> THEN "" ELSE JoinLoop(ws, 2, ws[1])

\* f'{100*c/w_total:.1f}' in tenths of a percent: the quotient rounded to the
\* nearest tenth, a tie to the even tenth. For w_total > 0.
PercentTenths(c, w_total) ==
    LET q == (1000 * c) \div w_total
        r == (1000 * c) % w_total
    IN  IF 2 * r > w_total \/ (2 * r = w_total /\ q % 2 = 1) THEN q + 1 ELSE q

\* The lines report_info prints for the pairs from pair i on. The division
\* raises ZeroDivisionError when w_total is 0; report_info then prints nothing
\* more.
RECURSIVE PairLines(_, _, _)
PairLines(w_pairs, w_total, i) ==
    IF i > Len(w_pairs) \/ w_total = 0 THEN <<>>
    ELSE <<[kind |-> "pair", first |-> w_pairs[i][2][1],
            second |-> w_pairs[i][2][2],
            tenths |-> PercentTenths(w_pairs[i][1], w_total),
            count |-> w_pairs[i][1]]>>
         \o PairLines(w_pairs, w_total, i + 1)

\* report_info(w, counts): the lines printed and the exception raised.
report_info(w, cnts) ==
    LET w_total == num_start_with(w, cnts)
        w_pairs == suggest_next(w, cnts, DefaultNumSuggestions)
    IN  [lines |-> <<[kind |-> "header", total |-> w_total, word |-> w]>>
                   \o PairLines(w_pairs, w_total, 1),
         raised |-> IF w_pairs /= <<>> /\ w_total = 0
                    THEN "ZeroDivisionError" ELSE "none"]

----------------------------------------------------------------------------
VARIABLES
    pc,             \* where the program is
    globals,        \* the names bound in the module's namespace
    words,          \* global words
    bigrams,        \* global bigrams
    bg_count,       \* global bg_count
    sorted_counts,  \* global sorted_counts
    counts,         \* the parameter counts of interact
    call,           \* the last call of a query function and what it returned
    state,          \* the state of the command loop
    out,            \* the lines the command loop printed last
    error           \* the exception that ended the program

vars == <<pc, globals, words, bigrams, bg_count, sorted_counts, counts, call,
          state, out, error>>

NoCall == [fn |-> "none", w |-> "", n |-> 0, ret |-> <<>>]

\* The lines interact prints before its loop.
Banner == <<[kind |-> "banner"]>>

\* __main__ up to the call of interact, and then calls of the query functions.
Init ==
    /\ pc = "get_words"
    /\ words \in SeqsUpTo(Vocab, MaxWords)
    /\ globals = {"words"}
    /\ bigrams = <<>>
    /\ bg_count = <<>>
    /\ sorted_counts = <<>>
    /\ counts = <<>>
    /\ call = NoCall
    /\ state = "NotStarted"
    /\ out = <<>>
    /\ error = "none"

\* bigrams = make_bigrams(words)
MakeBigrams ==
    /\ pc = "get_words"
    /\ bigrams' = make_bigrams(words)
    /\ globals' = globals \cup {"bigrams"}
    /\ pc' = "make_bigrams"
    /\ UNCHANGED <<words, bg_count, sorted_counts, counts, call, state, out, error>>

\* bg_count = count_bigrams(bigrams)
CountBigrams ==
    /\ pc = "make_bigrams"
    /\ bg_count' = count_bigrams(bigrams)
    /\ globals' = globals \cup {"bg_count"}
    /\ pc' = "count_bigrams"
    /\ UNCHANGED <<words, bigrams, sorted_counts, counts, call, state, out, error>>

\* sorted_counts = sort_bigram_counts(bg_count)
SortBigramCounts ==
    /\ pc = "count_bigrams"
    /\ sorted_counts' = sort_bigram_counts(bg_count)
    /\ globals' = globals \cup {"sorted_counts"}
    /\ pc' = "sorted"
    /\ UNCHANGED <<words, bigrams, bg_count, counts, call, state, out, error>>

\* num_start_with(w, sorted_counts)
NumStartWith ==
    /\ pc = "sorted"
    /\ \E w \in QueryWords :
         call' = [fn |-> "num_start_with", w |-> w, n |-> 0,
                  ret |-> num_start_with(w, sorted_counts)]
    /\ pc' = "called"
    /\ UNCHANGED <<globals, words, bigrams, bg_count, sorted_counts, counts,
                   state, out, error>>

\* suggest_next(w, sorted_counts, n)
SuggestNext ==
    /\ pc = "sorted"
    /\ \E w \in QueryWords, n \in 0..MaxSuggestions :
         call' = [fn |-> "suggest_next", w |-> w, n |-> n,
                  ret |-> suggest_next(w, sorted_counts, n)]
    /\ pc' = "called"
    /\ UNCHANGED <<globals, words, bigrams, bg_count, sorted_counts, counts,
                   state, out, error>>

\* get_most_freq_after(w, sorted_counts)
GetMostFreqAfter ==
    /\ pc = "sorted"
    /\ \E w \in QueryWords :
         call' = [fn |-> "get_most_freq_after", w |-> w, n |-> 0,
                  ret |-> get_most_freq_after(w, sorted_counts)]
    /\ pc' = "called"
    /\ UNCHANGED <<globals, words, bigrams, bg_count, sorted_counts, counts,
                   state, out, error>>

\* word_sequence(w, sorted_counts, n)
WordSequence ==
    /\ pc = "sorted"
    /\ \E w \in QueryWords, n \in 0..MaxLength :
         call' = [fn |-> "word_sequence", w |-> w, n |-> n,
                  ret |-> word_sequence(w, sorted_counts, n)]
    /\ pc' = "called"
    /\ UNCHANGED <<globals, words, bigrams, bg_count, sorted_counts, counts,
                   state, out, error>>

Next ==
    \/ MakeBigrams
    \/ CountBigrams
    \/ SortBigramCounts
    \/ NumStartWith
    \/ SuggestNext
    \/ GetMostFreqAfter
    \/ WordSequence

Spec == Init /\ [][Next]_vars

----------------------------------------------------------------------------
\* The names __main__ binds before it calls interact.
MainGlobals == {"words", "bigrams", "bg_count", "sorted_counts"}

\* A call interact(counts) with the ranked list of a corpus: by __main__,
\* which has bound sorted_counts to that list, or by a program that imported
\* the module, in which __main__ did not run and sorted_counts is not bound.
InteractInit ==
    /\ pc = "interact"
    /\ words \in SeqsUpTo(Vocab, MaxCorpus)
    /\ bigrams = make_bigrams(words)
    /\ bg_count = count_bigrams(bigrams)
    /\ counts = sort_bigram_counts(bg_count)
    /\ globals \in {MainGlobals, {}}
    /\ sorted_counts = IF "sorted_counts" \in globals THEN counts ELSE <<>>
    /\ call = NoCall
    /\ state = "Running"
    /\ out = Banner
    /\ error = "none"

\* One pass of the loop of interact on the input line. Of the messages
\* 'invalid command: ...' and 'unknown command: ...' out holds the part before
\* the colon.
Interact(line) ==
    /\ pc = "interact"
    /\ state = "Running"
    /\ LET terms == ParseTerms(line)
           n == Len(terms)
       IN  IF n = 0 \/ n > 2
           THEN /\ out' = <<[kind |-> "invalid command"]>>
                /\ UNCHANGED <<state, error>>
           ELSE IF n = 1
           THEN IF terms[1] = "quit"
                THEN /\ state' = "Terminated"
                     /\ UNCHANGED <<out, error>>
                ELSE /\ out' = <<[kind |-> "unknown command"]>>
                     /\ UNCHANGED <<state, error>>
           ELSE IF terms[1] = "info"
           THEN LET r == report_info(terms[2], counts)
                IN  /\ out' = r.lines
                    /\ error' = r.raised
                    /\ state' = IF r.raised = "none" THEN state ELSE "Crashed"
           ELSE IF terms[1] = "seq"
           THEN IF "sorted_counts" \in globals
                THEN /\ out' = <<[kind |-> "seq", word |-> terms[2],
                                  text |-> Join(word_sequence(terms[2],
                                             sorted_counts, DefaultLength))]>>
                     /\ UNCHANGED <<state, error>>
                ELSE /\ error' = "NameError"
                     /\ state' = "Crashed"
                     /\ UNCHANGED out
           ELSE /\ out' = <<[kind |-> "unknown command"]>>
                /\ UNCHANGED <<state, error>>
    /\ UNCHANGED <<pc, globals, words, bigrams, bg_count, sorted_counts, counts,
                   call>>

ReadCommand == \E line \in Lines : Interact(line)

InteractNext == ReadCommand

InteractSpec == InteractInit /\ [][InteractNext]_vars

----------------------------------------------------------------------------
\* Properties of the pipeline and of the query functions, under Spec.

Max(a, b) == IF a > b THEN a ELSE b

Occurrences(lst, x) == Cardinality({i \in 1..Len(lst) : lst[i] = x})

Elements(lst) == {lst[i] : i \in 1..Len(lst)}

RECURSIVE SumValues(_)
SumValues(d) == IF d = <<>> THEN 0 ELSE Head(d)[2] + SumValues(Tail(d))

\* The corpus of the scenario "a b a b a c".
ScenarioWords == <<"a", "b", "a", "b", "a", "c">>

\* C9: make_bigrams returns max(N-1, 0) bigrams for N words, and bigram i is
\* the pair of word i and the word after it.
C9_MakeBigramsAdjacentPairs ==
    "bigrams" \in globals =>
        /\ Len(bigrams) = Max(Len(words) - 1, 0)
        /\ \A i \in 1..(Len(words) - 1) : bigrams[i] = <<words[i], words[i + 1]>>

C9_Witness ==
    /\ pc = "make_bigrams"
    /\ words = ScenarioWords
    /\ bigrams = <<<<"a", "b">>, <<"b", "a">>, <<"a", "b">>, <<"b", "a">>,
                   <<"a", "c">>>>

\* C8: the keys of the table count_bigrams returns are exactly the distinct
\* bigrams of its input, each once; every count is at least 1 and is the
\* number of occurrences of its bigram; the counts add up to the length of
\* the input.
C8_CountBigramsCounts ==
    "bg_count" \in globals =>
        /\ Keys(bg_count) = Elements(bigrams)
        /\ Cardinality(Keys(bg_count)) = Len(bg_count)
        /\ \A i \in 1..Len(bg_count) :
             /\ bg_count[i][2] >= 1
             /\ bg_count[i][2] = Occurrences(bigrams, bg_count[i][1])
        /\ SumValues(bg_count) = Len(bigrams)

C8_Witness ==
    /\ pc = "count_bigrams"
    /\ words = ScenarioWords
    /\ bg_count = <<<<<<"a", "b">>, 2>>, <<<<"b", "a">>, 2>>, <<<<"a", "c">>, 1>>>>

\* Entry x stands before entry y in the ranked list: its count is higher, or
\* the counts are equal and its bigram is the greater one.
RankedBefore(x, y) ==
    \/ x[1] > y[1]
    \/ x[1] = y[1] /\ BigramLess(y[2], x[2])

\* C4: sort_bigram_counts returns one (count, bigram) entry per key of the
\* table, by descending count and, among equal counts, by descending bigram;
\* the list is the same whatever the order the table holds its keys in.
C4_SortBigramCountsOrder ==
    "sorted_counts" \in globals =>
        /\ Len(sorted_counts) = Len(bg_count)
        /\ Elements(sorted_counts) = Elements(CountPairs(bg_count))
        /\ \A i, j \in 1..Len(sorted_counts) :
             i < j => RankedBefore(sorted_counts[i], sorted_counts[j])
        /\ sort_bigram_counts(Reverse(bg_count)) = sorted_counts

C4_Witness ==
    /\ pc = "sorted"
    /\ words = ScenarioWords
    /\ sorted_counts = <<<<2, <<"b", "a">>>>, <<2, <<"a", "b">>>>,
                         <<1, <<"a", "c">>>>>>

\* The words recorded after w.
Successors(w) == {k[2] : k \in {k \in Keys(bg_count) : k[1] = w}}

\* C5: for a word w that starts a bigram, get_most_freq_after returns a
\* successor x of w whose count no successor of w exceeds, and that is the
\* greatest word among the successors of that count.
C5_MostFrequentSuccessor ==
    (call.fn = "get_most_freq_after" /\ Successors(call.w) /= {}) =>
        /\ call.ret \in Successors(call.w)
        /\ \A y \in Successors(call.w) :
             /\ Lookup(bg_count, <<call.w, call.ret>>)
                  >= Lookup(bg_count, <<call.w, y>>)
             /\ Lookup(bg_count, <<call.w, call.ret>>)
                  = Lookup(bg_count, <<call.w, y>>) => ~WordLess(call.ret, y)

\* After "a b a c" the successors b and c of a have count 1 each.
C5_Witness ==
    /\ pc = "called"
    /\ words = <<"a", "b", "a", "c">>
    /\ call.fn = "get_most_freq_after"
    /\ call.w = "a"
    /\ call.ret = "c"

\* The second word of the single entry of suggest_next(w, counts, 1), or the
\* sentinel when there is no entry.
TopSuccessor(top) == IF top = <<>> THEN Sentinel ELSE top[1][2][2]

\* C6: get_most_freq_after(w) is the second word of the single entry of
\* suggest_next(w, counts, 1), and the sentinel when that list is empty.
C6_MostFrequentIsTopSuggestion ==
    /\ call.fn = "get_most_freq_after" =>
         /\ Len(suggest_next(call.w, sorted_counts, 1)) <= 1
         /\ call.ret = TopSuccessor(suggest_next(call.w, sorted_counts, 1))
    /\ (call.fn = "suggest_next" /\ call.n = 1) =>
         /\ Len(call.ret) <= 1
         /\ TopSuccessor(call.ret) = get_most_freq_after(call.w, sorted_counts)

\* No bigram starts with c after "a b a c", and the list is not empty.
C6_Witness ==
    /\ pc = "called"
    /\ words = <<"a", "b", "a", "c">>
    /\ call.fn = "get_most_freq_after"
    /\ call.w = "c"
    /\ call.ret = Sentinel

\* C7: word_sequence(w, counts, L) returns L + 1 words, the first of them w,
\* and after a sentinel come only sentinels.
C7_WordSequenceSentinel ==
    call.fn = "word_sequence" =>
        /\ Len(call.ret) = call.n + 1
        /\ call.ret[1] = call.w
        /\ \A i, j \in 1..Len(call.ret) :
             (i < j /\ call.ret[i] = Sentinel) => call.ret[j] = Sentinel

C7_Witness ==
    /\ pc = "called"
    /\ words = <<"a", "b">>
    /\ call.fn = "word_sequence"
    /\ call.w = "a"
    /\ call.n = 3
    /\ call.ret = <<"a", "b", Sentinel, Sentinel>>

----------------------------------------------------------------------------
\* Properties of the command loop, under InteractSpec.

\* The whitespace-delimited terms of a line: its blocks, in order.
RECURSIVE Blocks(_)
Blocks(line) ==
    IF line = <<>> THEN <<>>
    ELSE IF Head(line) = Space THEN Blocks(Tail(line))
    ELSE <<Head(line)>> \o Blocks(Tail(line))

\* The words of the commands of the model.
CommandWords == {LowerAtom(ch) : ch \in Atoms \ {Space}}

InfoLine(w) == <<"info", Space, w>>

SeqLine(w) == <<"seq", Space, w>>

Spaces(n) == [i \in 1..n |-> Space]

\* The lines whose only term is quit: quit between spaces.
QuitLines ==
    {Spaces(i) \o <<"quit">> \o Spaces(j) :
        i \in 0..MaxLine, j \in 0..MaxLine} \cap Lines

InvalidCommand == <<[kind |-> "invalid command"]>>

\* A pass of the loop that reports an invalid command: a pass that prints
\* goes on to the next pass, one that prints nothing ends the loop.
ReportsInvalid == out' = InvalidCommand /\ state' = "Running"

C2_TermCountDecidesInvalid ==
    [][\A line \in Lines :
         Interact(line) =>
             IF Len(Blocks(line)) = 0 \/ Len(Blocks(line)) > 2
             THEN ReportsInvalid
             ELSE ~ReportsInvalid]_vars

\* C3: a line whose only term is quit ends the loop, whatever was read
\* before, and the ended loop makes no step.
C3_QuitTerminates ==
    [][/\ state /= "Terminated"
       /\ \A line \in QuitLines : Interact(line) => state' = "Terminated"]_vars

\* The loop ended by quit after an invalid command.
C3_Witness ==
    /\ state = "Terminated"
    /\ out = InvalidCommand
    /\ error = "none"

\* C10: seq w prints word_sequence(w, counts) of the list counts given to
\* interact, with the default length.
C10_SeqUsesGivenList ==
    [][\A w \in CommandWords :
         Interact(SeqLine(w)) =>
             /\ out' = <<[kind |-> "seq", word |-> w,
                          text |-> Join(word_sequence(w, counts, DefaultLength))]>>
             /\ state' = "Running"]_vars

====
